---- MODULE Spec2Model ----
(***************************************************************************)
(* Model of utils/sync_base.py: the script that moves the fork point of    *)
(* the local main branch along llvm-main and re-applies the local commits. *)
(*                                                                         *)
(* The repository is a linear trunk (the upstream mainline, commits        *)
(* 1..TrunkLen) with side chains of local commits growing from a trunk     *)
(* commit.  A commit is the record [base, locals]: the trunk commit it     *)
(* descends from and the diffs committed on top of it, oldest first.       *)
(***************************************************************************)
EXTENDS Integers, Sequences, FiniteSets, TLC

\* ---------------------------------------------------------------- bounds
TrunkLen == 3
MaxLocal == 2
MaxStep == 2

\* ---------------------------------------------------------------- commits
NoCommit == [base |-> 0, locals |-> <<>>]

Trunk(k) == [base |-> k, locals |-> <<>>]

\* the tip of llvm-upstream's main on the remote side
RemoteTip == Trunk(TrunkLen)

Diffs == 1..MaxLocal

\* a diff carried by a commit that lives on somebody else's branch
ForeignDiff == MaxLocal + 1

\* a commit known to the repository that is on no branch of the trunk
SideCommit == [base |-> 1, locals |-> <<ForeignDiff>>]

\* the chains of local commits main may carry: distinct diffs, oldest first
LocalSeqs ==
    {q \in UNION {[1..n -> Diffs] : n \in 0..MaxLocal} :
        \A i, j \in 1..Len(q) : q[i] = q[j] => i = j}

\* the commits reachable from c, c included
Anc(c) ==
    {Trunk(k) : k \in 1..c.base} \cup
    {[base |-> c.base, locals |-> SubSeq(c.locals, 1, j)] : j \in 1..Len(c.locals)}

\* git merge-base --is-ancestor x y  (exit status 0)
IsAncestor(x, y) == x \in Anc(y)

\* a set of commits as a list in which every commit follows its ancestors
RECURSIVE TopoSeq(_)
TopoSeq(S) ==
    IF S = {} THEN <<>>
    ELSE LET first == CHOOSE x \in S : \A y \in S : IsAncestor(y, x) => y = x
         IN  <<first>> \o TopoSeq(S \ {first})

\* git rev-list --reverse <pos...> ^<neg>: what is reachable from a commit
\* of pos and not from neg, oldest first
RevList(neg, pos) == TopoSeq((UNION {Anc(p) : p \in pos}) \ Anc(neg))

\* git merge-base a b
MergeBase(a, b) ==
    LET common == Anc(a) \cap Anc(b)
    IN  IF common = {} THEN NoCommit
        ELSE CHOOSE x \in common : \A y \in common : IsAncestor(y, x)

\* the change a commit introduces (what git format-patch -1 serialises)
DiffOf(c) ==
    IF c.locals = <<>> THEN 0 - c.base ELSE c.locals[Len(c.locals)]

\* git am putting the new commit below the ones already applied
GitAmPrepend(head, patch) ==
    [base |-> head.base, locals |-> <<patch.content>> \o head.locals]

\* git am: a new commit on top of head carrying the patch's diff
GitAm(head, patch) ==
    [base |-> head.base, locals |-> Append(head.locals, patch.content)]

VARIABLES
    pc,               \* position of the run in main()
    exit_code,        \* -1 while running, else the process exit code
    current_branch,   \* the checked-out branch
    has_remote,       \* llvm-upstream is among the remotes
    llvm_main,        \* local branch llvm-main (NoCommit: does not exist)
    upstream_main,    \* remote-tracking ref llvm-upstream/main
    main,             \* tip of the local main branch
    backup,           \* tip of the backup branch (NoCommit: none)
    dirty,            \* kinds of uncommitted change in the working tree
    step,             \* the --step argument
    circt_commit,
    old_base_commit,
    local_commits,
    new_base_commit,
    patch_files,      \* the patch files in the temporary directory
    temp_dir,         \* "none", "exists", "removed"
    patch_idx,        \* number of patches applied so far in the loop
    attempts,         \* number of git am invocations
    printed,          \* the outcomes the run has reported so far
    ops,              \* the mutating operations performed so far
    report,           \* what report_fork_position printed
    orig_main         \* main's tip when the run started

vars == <<pc, exit_code, current_branch, has_remote,
          llvm_main, upstream_main, main, backup, dirty, step, circt_commit,
          old_base_commit, local_commits, new_base_commit, patch_files,
          temp_dir, patch_idx, attempts, printed, ops, report, orig_main>>

\* ---------------------------------------------------------------- inputs
Steps ==
    {[kind |-> "none", n |-> 0], [kind |-> "max", n |-> 0]} \cup
    {[kind |-> "int", n |-> k] : k \in (0 - MaxStep)..MaxStep}

DirtyKinds == {{}, {"staged"}, {"unstaged"}, {"untracked"}}

\* what the CIRCT repository may name as its LLVM commit
CirctChoices == {Trunk(k) : k \in 1..TrunkLen} \cup {SideCommit}

NoReport == [circt |-> [rel |-> "none", n |-> 0], latest |-> [rel |-> "none", n |-> 0]]

\* ---------------------------------------------------------------- helpers
\* Python list indexing: 0-based, a negative index counts from the end
PyIndex(list, idx) ==
    IF idx >= 0 THEN list[idx + 1] ELSE list[Len(list) + idx + 1]

\* list.index(x): the 0-based position of x, -1 standing for ValueError
PyFind(list, x) ==
    IF \E i \in 1..Len(list) : list[i] = x
    THEN (CHOOSE i \in 1..Len(list) : list[i] = x /\ \A j \in 1..(i - 1) : list[j] # x) - 1
    ELSE -1

\* the check without its ls-files --others step
is_dirty_ignoring_untracked(d) ==
    IF "staged" \in d THEN TRUE
    ELSE IF "unstaged" \in d THEN TRUE
    ELSE FALSE

is_working_directory_dirty(d) ==
    IF "staged" \in d THEN TRUE
    ELSE IF "unstaged" \in d THEN TRUE
    ELSE IF "untracked" \in d THEN TRUE
    ELSE FALSE

\* returns the fork point and the local commits, oldest first
find_fork_point(mainTip, llvmTip) ==
    LET fork_point == MergeBase(mainTip, llvmTip)
    IN  [fork |-> fork_point, commits |-> RevList(fork_point, {mainTip})]

\* the patches written newest commit first
save_patches_reversed(commits) ==
    [i \in 1..Len(commits) |->
        [name |-> <<i - 1, commits[Len(commits) + 1 - i]>>,
         content |-> DiffOf(commits[Len(commits) + 1 - i])]]

\* one patch file per commit, in list order, named by index and commit
save_patches(commits) ==
    [i \in 1..Len(commits) |->
        [name |-> <<i - 1, commits[i]>>, content |-> DiffOf(commits[i])]]

\* the backward clamp keeping the current base instead of the oldest commit
calculate_target_commit_stay(old_base, llvmTip, st) ==
    IF st.kind = "max" THEN [exit |-> FALSE, target |-> llvmTip]
    ELSE IF st.n = 0 THEN [exit |-> FALSE, target |-> old_base]
    ELSE
        LET all_commits == RevList(NoCommit, {llvmTip})
            current_idx == PyFind(all_commits, old_base)
            target_idx == current_idx + st.n
        IN  IF current_idx = -1 THEN [exit |-> TRUE, target |-> NoCommit]
            ELSE IF st.n > 0
            THEN IF target_idx < Len(all_commits)
                 THEN [exit |-> FALSE, target |-> PyIndex(all_commits, target_idx)]
                 ELSE [exit |-> FALSE, target |-> PyIndex(all_commits, -1)]
            ELSE IF target_idx >= 0
                 THEN [exit |-> FALSE, target |-> PyIndex(all_commits, target_idx)]
                 ELSE [exit |-> FALSE, target |-> old_base]

\* the lookup done with a find that answers -1 instead of raising
calculate_target_commit_find(old_base, llvmTip, st) ==
    IF st.kind = "max" THEN [exit |-> FALSE, target |-> llvmTip]
    ELSE IF st.n = 0 THEN [exit |-> FALSE, target |-> old_base]
    ELSE
        LET all_commits == RevList(NoCommit, {llvmTip})
            current_idx == PyFind(all_commits, old_base)
            target_idx == current_idx + st.n
        IN  IF st.n > 0
            THEN IF target_idx < Len(all_commits)
                 THEN [exit |-> FALSE, target |-> PyIndex(all_commits, target_idx)]
                 ELSE [exit |-> FALSE, target |-> PyIndex(all_commits, -1)]
            ELSE IF target_idx >= 0
                 THEN [exit |-> FALSE, target |-> PyIndex(all_commits, target_idx)]
                 ELSE [exit |-> FALSE, target |-> PyIndex(all_commits, 0)]

\* exit: the call ended in sys.exit(1); otherwise target is returned
calculate_target_commit(old_base, llvmTip, st) ==
    IF st.kind = "max" THEN [exit |-> FALSE, target |-> llvmTip]
    ELSE IF st.n = 0 THEN [exit |-> FALSE, target |-> old_base]
    ELSE
        LET all_commits == RevList(NoCommit, {llvmTip})
            current_idx == PyFind(all_commits, old_base)
            target_idx == current_idx + st.n
        IN  IF current_idx = -1 THEN [exit |-> TRUE, target |-> NoCommit]
            ELSE IF st.n > 0
            THEN IF target_idx < Len(all_commits)
                 THEN [exit |-> FALSE, target |-> PyIndex(all_commits, target_idx)]
                 ELSE [exit |-> FALSE, target |-> PyIndex(all_commits, -1)]
            ELSE IF target_idx >= 0
                 THEN [exit |-> FALSE, target |-> PyIndex(all_commits, target_idx)]
                 ELSE [exit |-> FALSE, target |-> PyIndex(all_commits, 0)]

\* the verification with its second check left out
verify_old_base_only(old_base, new_base, upstreamTip) ==
    IF ~IsAncestor(old_base, upstreamTip) THEN FALSE
    ELSE TRUE

\* TRUE when both ancestry checks pass; FALSE is sys.exit(1)
verify_commits_in_upstream(old_base, new_base, upstreamTip) ==
    IF ~IsAncestor(old_base, upstreamTip) THEN FALSE
    ELSE IF ~IsAncestor(new_base, upstreamTip) THEN FALSE
    ELSE TRUE

\* git rev-list --reverse from..to branch
get_commits_between(from_commit, to_commit, branchTip) ==
    RevList(from_commit, {to_commit, branchTip})

\* "plus" is the printed "(+N commits to current)", "minus" the "(-N ...)"
report_fork_position(fork_commit, circt, latest_llvm) ==
    [circt |->
        IF fork_commit = circt THEN [rel |-> "same", n |-> 0]
        ELSE IF IsAncestor(fork_commit, circt)
        THEN [rel |-> "plus",
              n |-> Len(get_commits_between(fork_commit, circt, latest_llvm))]
        ELSE IF IsAncestor(circt, fork_commit)
        THEN [rel |-> "minus",
              n |-> Len(get_commits_between(circt, fork_commit, latest_llvm))]
        ELSE [rel |-> "different", n |-> 0],
     latest |->
        IF fork_commit = latest_llvm THEN [rel |-> "same", n |-> 0]
        ELSE [rel |-> "plus",
              n |-> Len(get_commits_between(fork_commit, latest_llvm, latest_llvm))]]

\* a handler written "except BaseException"
ExceptBaseExceptionCatches(exc) == TRUE

\* the handler "except Exception" of rebase_to_new_base: SystemExit is a
\* BaseException and passes through it
ExceptExceptionCatches(exc) == exc # "SystemExit"

\* what leaves the loop body when git am raises exc: CalledProcessError is
\* turned into sys.exit(1) by the inner handler
RaisedByPatchStep(exc) ==
    IF exc = "CalledProcessError" THEN "SystemExit" ELSE exc

\* the inner handler reports the patch that failed before it exits
PrintedByPatchStep(exc) ==
    IF exc = "CalledProcessError" THEN {"patch failed"} ELSE {}

\* ---------------------------------------------------------------- main()
TrunkRefs == {NoCommit} \cup {Trunk(k) : k \in 1..TrunkLen}

Locals0 ==
    /\ exit_code = -1
    /\ circt_commit = NoCommit
    /\ old_base_commit = NoCommit
    /\ local_commits = <<>>
    /\ new_base_commit = NoCommit
    /\ patch_files = <<>>
    /\ temp_dir = "none"
    /\ patch_idx = 0
    /\ attempts = 0
    /\ printed = {}
    /\ ops = {}
    /\ report = NoReport
    /\ backup = NoCommit

Init ==
    /\ pc = "check_branch"
    /\ Locals0
    /\ current_branch \in {"main", "feature"}
    /\ has_remote \in BOOLEAN
    /\ llvm_main \in TrunkRefs
    /\ upstream_main \in (IF has_remote THEN {NoCommit, llvm_main} ELSE {NoCommit})
    /\ main \in {[base |-> b, locals |-> q] : b \in 1..TrunkLen, q \in LocalSeqs}
    /\ orig_main = main
    /\ dirty \in DirtyKinds
    /\ step \in Steps

\* the process ends with exit code c after printing msg
Exit(c, msg) ==
    /\ pc' = "done"
    /\ exit_code' = c
    /\ printed' = printed \cup {msg}

Goto(p) ==
    /\ pc' = p
    /\ UNCHANGED <<exit_code, printed>>

\* the finally clause of main(): shutil.rmtree(temp_dir)
Cleanup == temp_dir' = "removed"

CheckMainBranch ==
    /\ pc = "check_branch"
    /\ \E tracking_ok \in BOOLEAN, url_ok \in BOOLEAN :
        /\ current_branch' = "main"
        /\ ops' = ops \cup (IF current_branch # "main" THEN {"checkout"} ELSE {})
        /\ IF ~tracking_ok THEN Exit(1, "not tracking origin/main")
           ELSE IF ~url_ok THEN Exit(1, "wrong origin url")
           ELSE Goto("ensure_upstream")
    /\ UNCHANGED <<has_remote, llvm_main, upstream_main, main, backup, dirty, step,
                   circt_commit, old_base_commit, local_commits, new_base_commit,
                   patch_files, temp_dir, patch_idx, attempts, report, orig_main>>

\* git remote add when the remote is missing, then git fetch llvm-upstream
\* main:llvm-main (an uncaught CalledProcessError when it fails), then the
\* push of llvm-main when its tip moved (a failed push only warns).  The
\* fetch also refreshes llvm-upstream/main when the remote's configured
\* refspec covers it, which it does for a remote the script added itself.
EnsureLlvmUpstream ==
    /\ pc = "ensure_upstream"
    /\ has_remote' = TRUE
    /\ \E fetch_ok \in BOOLEAN, push_ok \in BOOLEAN, refreshed \in BOOLEAN :
        LET added == IF has_remote THEN {} ELSE {"remote_add"}
            old_llvm_main == llvm_main
            new_llvm_main == RemoteTip
        IN  IF ~fetch_ok
            THEN /\ ops' = ops \cup added
                 /\ UNCHANGED <<llvm_main, upstream_main>>
                 /\ Exit(1, "fetch failed")
            ELSE /\ llvm_main' = new_llvm_main
                 /\ upstream_main' =
                        IF ~has_remote \/ refreshed THEN RemoteTip ELSE upstream_main
                 /\ ops' = ops \cup added
                        \cup (IF old_llvm_main # new_llvm_main THEN {"fetch_update"} ELSE {})
                        \cup (IF old_llvm_main # new_llvm_main /\ push_ok
                              THEN {"push"} ELSE {})
                 /\ Goto("get_circt")
    /\ UNCHANGED <<current_branch, main, backup, dirty, step, circt_commit,
                   old_base_commit, local_commits, new_base_commit, patch_files,
                   temp_dir, patch_idx, attempts, report, orig_main>>

GetCirctLlvmCommit ==
    /\ pc = "get_circt"
    /\ \E sha \in CirctChoices \cup {NoCommit} :
        IF sha = NoCommit
        THEN /\ UNCHANGED circt_commit
             /\ Exit(1, "circt lookup failed")
        ELSE /\ circt_commit' = sha
             /\ Goto("find_fork")
    /\ UNCHANGED <<current_branch, has_remote, llvm_main, upstream_main, main, backup,
                   dirty, step, old_base_commit, local_commits, new_base_commit,
                   patch_files, temp_dir, patch_idx, attempts, ops, report, orig_main>>

FindForkPoint ==
    /\ pc = "find_fork"
    /\ LET r == find_fork_point(main, llvm_main)
       IN  IF r.fork = NoCommit
           THEN /\ UNCHANGED <<old_base_commit, local_commits>>
                /\ Exit(1, "no merge base")
           ELSE /\ old_base_commit' = r.fork
                /\ local_commits' = r.commits
                /\ Goto("target")
    /\ UNCHANGED <<current_branch, has_remote, llvm_main, upstream_main, main, backup,
                   dirty, step, circt_commit, new_base_commit, patch_files, temp_dir,
                   patch_idx, attempts, ops, report, orig_main>>

DetermineTarget ==
    /\ pc = "target"
    /\ IF step.kind = "none"
       THEN /\ new_base_commit' = circt_commit
            /\ Goto("compare")
       ELSE LET r == calculate_target_commit(old_base_commit, llvm_main, step)
            IN  IF r.exit
                THEN /\ UNCHANGED new_base_commit
                     /\ Exit(1, "base not in llvm-main")
                ELSE /\ new_base_commit' = r.target
                     /\ Goto("compare")
    /\ UNCHANGED <<current_branch, has_remote, llvm_main, upstream_main, main, backup,
                   dirty, step, circt_commit, old_base_commit, local_commits,
                   patch_files, temp_dir, patch_idx, attempts, ops, report, orig_main>>

\* the early return never taken
NeverAtTarget(old_base, new_base) == FALSE

\* Step 4 of main(): the comparison that ends the run early
AlreadyAtTarget(old_base, new_base) == old_base = new_base

CompareTarget ==
    /\ pc = "compare"
    /\ IF AlreadyAtTarget(old_base_commit, new_base_commit)
       THEN /\ report' = report_fork_position(new_base_commit, circt_commit, llvm_main)
            /\ Exit(0, "already at target")
       ELSE /\ UNCHANGED report
            /\ Goto("dirty_check")
    /\ UNCHANGED <<current_branch, has_remote, llvm_main, upstream_main, main, backup,
                   dirty, step, circt_commit, old_base_commit, local_commits,
                   new_base_commit, patch_files, temp_dir, patch_idx, attempts, ops,
                   orig_main>>

DirtyCheck ==
    /\ pc = "dirty_check"
    /\ IF is_working_directory_dirty(dirty)
       THEN Exit(1, "working directory dirty")
       ELSE Goto("save")
    /\ UNCHANGED <<current_branch, has_remote, llvm_main, upstream_main, main, backup,
                   dirty, step, circt_commit, old_base_commit, local_commits,
                   new_base_commit, patch_files, temp_dir, patch_idx, attempts, ops,
                   report, orig_main>>

SavePatches ==
    /\ pc = "save"
    /\ temp_dir' = "exists"
    /\ patch_files' = save_patches(local_commits)
    /\ ops' = ops \cup {"mkdtemp"}
                  \cup (IF local_commits # <<>> THEN {"patch_written"} ELSE {})
    /\ Goto("verify")
    /\ UNCHANGED <<current_branch, has_remote, llvm_main, upstream_main, main, backup,
                   dirty, step, circt_commit, old_base_commit, local_commits,
                   new_base_commit, patch_idx, attempts, report, orig_main>>

VerifyCommits ==
    /\ pc = "verify"
    /\ IF verify_commits_in_upstream(old_base_commit, new_base_commit, upstream_main)
       THEN /\ Goto("backup")
            /\ UNCHANGED temp_dir
       ELSE /\ Exit(1, "commit not in upstream")
            /\ Cleanup
    /\ UNCHANGED <<current_branch, has_remote, llvm_main, upstream_main, main, backup,
                   dirty, step, circt_commit, old_base_commit, local_commits,
                   new_base_commit, patch_files, patch_idx, attempts, ops, report,
                   orig_main>>

\* ---------------------------------------------------------------- rebase_to_new_base
\* git branch main-backup-<date>: a branch at HEAD, which is main's tip
CreateBackup ==
    /\ pc = "backup"
    /\ backup' = main
    /\ ops' = ops \cup {"backup"}
    /\ Goto("reset")
    /\ UNCHANGED <<current_branch, has_remote, llvm_main, upstream_main, main, dirty,
                   step, circt_commit, old_base_commit, local_commits, new_base_commit,
                   patch_files, temp_dir, patch_idx, attempts, report, orig_main>>

\* where an exception raised inside the try block of rebase_to_new_base
\* goes; said is what the inner handler printed before it
Unwind(raised, said) ==
    IF ExceptExceptionCatches(raised)
    THEN /\ pc' = "restore"
         /\ printed' = printed \cup said
         /\ UNCHANGED <<exit_code, temp_dir>>
    ELSE /\ pc' = "done"
         /\ exit_code' = 1
         /\ printed' = printed \cup said
         /\ Cleanup

\* git reset --hard new_base_commit
ResetHard ==
    /\ pc = "reset"
    /\ \E outcome \in {"ok", "CalledProcessError"} :
        IF outcome = "ok"
        THEN /\ main' = new_base_commit
             /\ ops' = ops \cup {"reset"}
             /\ Goto("apply")
             /\ UNCHANGED temp_dir
        ELSE /\ UNCHANGED <<main, ops>>
             /\ Unwind(outcome, {})
    /\ UNCHANGED <<current_branch, has_remote, llvm_main, upstream_main, backup, dirty,
                   step, circt_commit, old_base_commit, local_commits, new_base_commit,
                   patch_files, patch_idx, attempts, report, orig_main>>

\* one iteration of the loop over patch_files: git am patch_file, which
\* applies, exits nonzero (CalledProcessError) or cannot be run (OSError)
ApplyPatch ==
    /\ pc = "apply"
    /\ patch_idx < Len(patch_files)
    /\ attempts' = attempts + 1
    /\ \E outcome \in {"ok", "CalledProcessError", "OSError"} :
        IF outcome = "ok"
        THEN /\ main' = GitAm(main, patch_files[patch_idx + 1])
             /\ patch_idx' = patch_idx + 1
             /\ ops' = ops \cup {"am"}
             /\ Goto("apply")
             /\ UNCHANGED temp_dir
        ELSE /\ UNCHANGED <<main, patch_idx, ops>>
             /\ Unwind(RaisedByPatchStep(outcome), PrintedByPatchStep(outcome))
    /\ UNCHANGED <<current_branch, has_remote, llvm_main, upstream_main, backup, dirty,
                   step, circt_commit, old_base_commit, local_commits, new_base_commit,
                   patch_files, report, orig_main>>

\* the loop is over: the success messages, Step 9 of main() and its finally
FinishRebase ==
    /\ pc = "apply"
    /\ patch_idx = Len(patch_files)
    /\ report' = report_fork_position(new_base_commit, circt_commit, llvm_main)
    /\ Exit(0, "rebased")
    /\ Cleanup
    /\ UNCHANGED <<current_branch, has_remote, llvm_main, upstream_main, main, backup,
                   dirty, step, circt_commit, old_base_commit, local_commits,
                   new_base_commit, patch_files, patch_idx, attempts, ops, orig_main>>

\* the handler checking the backup out without moving main to it
RestoreWithoutForce ==
    /\ pc = "restore"
    /\ main' = main
    /\ current_branch' = "main"
    /\ ops' = ops \cup {"restore"}
    /\ Exit(1, "restored from backup")
    /\ Cleanup
    /\ UNCHANGED <<has_remote, llvm_main, upstream_main, backup, dirty, step,
                   circt_commit, old_base_commit, local_commits, new_base_commit,
                   patch_files, patch_idx, attempts, report, orig_main>>

\* the except handler: checkout the backup, git branch -f main <backup>,
\* checkout main, sys.exit(1)
RestoreFromBackup ==
    /\ pc = "restore"
    /\ main' = backup
    /\ current_branch' = "main"
    /\ ops' = ops \cup {"restore"}
    /\ Exit(1, "restored from backup")
    /\ Cleanup
    /\ UNCHANGED <<has_remote, llvm_main, upstream_main, backup, dirty, step,
                   circt_commit, old_base_commit, local_commits, new_base_commit,
                   patch_files, patch_idx, attempts, report, orig_main>>

Next ==
    \/ CheckMainBranch
    \/ EnsureLlvmUpstream
    \/ GetCirctLlvmCommit
    \/ FindForkPoint
    \/ DetermineTarget
    \/ CompareTarget
    \/ DirtyCheck
    \/ SavePatches
    \/ VerifyCommits
    \/ CreateBackup
    \/ ResetHard
    \/ ApplyPatch
    \/ FinishRebase
    \/ RestoreFromBackup

Spec == Init /\ [][Next]_vars

\* ---------------------------------------------------------------- properties of main()
\* main as it stands with the first k local commits re-applied on new_base
Reapplied(k) ==
    [base |-> new_base_commit.base,
     locals |-> new_base_commit.locals \o [i \in 1..k |-> DiffOf(local_commits[i])]]

PatchFailed == "patch failed" \in printed

\* C1: when git am fails on the k-th patch the run stops at once: k is the
\* number of git am calls made, nothing after k is attempted, the exit code
\* is 1, main is not put back on the backup but stays at the new base plus
\* the k-1 patches applied, and the backup branch is still there.
C1_PatchFailureStops ==
    PatchFailed =>
        /\ pc = "done"
        /\ exit_code = 1
        /\ attempts = patch_idx + 1
        /\ attempts <= Len(patch_files)
        /\ main = Reapplied(attempts - 1)
        /\ main # orig_main
        /\ "restore" \notin ops
        /\ backup = orig_main

C1_Witness ==
    /\ PatchFailed
    /\ pc = "done"
    /\ attempts = 2
    /\ Len(patch_files) >= 2

\* C2 as stated: a run that reset main ends either with every local commit
\* re-applied on the new base in order, or with main back on the backup.
C2_AllOrRestored ==
    (pc = "done" /\ "reset" \in ops) =>
        \/ main = Reapplied(Len(local_commits))
        \/ main = orig_main

\* C2 amended: a run that reset main (to a base that is an ancestor of the
\* upstream ref) ends in one of three ways: every local commit re-applied in
\* order, exit 0; an unexpected exception, main back on the backup, exit 1;
\* or a patch that did not apply, main left at the new base with only the
\* patches before it, the backup branch kept, exit 1.
C2_AllRestoredOrPartial ==
    (pc = "done" /\ "reset" \in ops) =>
        /\ IsAncestor(new_base_commit, upstream_main)
        /\ \/ /\ exit_code = 0
              /\ main = Reapplied(Len(local_commits))
              /\ patch_idx = Len(local_commits)
           \/ /\ exit_code = 1
              /\ "restore" \in ops
              /\ main = orig_main
           \/ /\ exit_code = 1
              /\ PatchFailed
              /\ patch_idx < Len(local_commits)
              /\ main = Reapplied(patch_idx)
              /\ backup = orig_main

C2_Witness ==
    /\ pc = "done"
    /\ exit_code = 0
    /\ "reset" \in ops
    /\ Len(local_commits) = 2
    /\ main = Reapplied(2)

\* C3: the backup branch and the hard reset come only after both the old
\* and the new base were found to be ancestors of the upstream ref, however
\* the new base was chosen; a failed verification ends the run with exit
\* code 1 and main's tip as it was.
C3_VerifiedBeforeReset ==
    /\ (backup # NoCommit \/ "backup" \in ops \/ "reset" \in ops \/ main # orig_main) =>
            /\ IsAncestor(old_base_commit, upstream_main)
            /\ IsAncestor(new_base_commit, upstream_main)
    /\ "commit not in upstream" \in printed =>
            /\ pc = "done"
            /\ exit_code = 1
            /\ main = orig_main
            /\ backup = NoCommit
            /\ "reset" \notin ops

C3_Witness ==
    /\ "reset" \in ops
    /\ step.kind = "int"
    /\ step.n < 0
    /\ new_base_commit # old_base_commit

\* C4: the backup branch is made at main's tip before the reset, and an
\* unexpected exception after that is caught: main is forced back to the
\* backup, so its tip is the one it had before the run, main is the
\* checked-out branch, and the exit code is 1.
C4_ExceptionRestores ==
    /\ ("reset" \in ops \/ pc \in {"reset", "apply", "restore"}) => backup = orig_main
    /\ "restore" \in ops =>
            /\ pc = "done"
            /\ exit_code = 1
            /\ main = backup
            /\ main = orig_main
            /\ current_branch = "main"

C4_Witness ==
    /\ "restore" \in ops
    /\ "am" \in ops
    /\ attempts = 2

\* the operations Steps 0 and 1 of main() may perform
SetupOps == {"checkout", "remote_add", "fetch_update", "push"}

TargetIsForkPoint ==
    /\ new_base_commit # NoCommit
    /\ new_base_commit = old_base_commit

\* C5 as stated: with the target equal to the fork point the run reports
\* "already at target", exits 0 and performs no mutating operation at all.
C5_NoMutationAtAll ==
    (TargetIsForkPoint /\ pc = "done") =>
        /\ exit_code = 0
        /\ "already at target" \in printed
        /\ ops = {}

\* C5 amended: with the target equal to the fork point the run reports
\* "already at target", exits 0 and performs no mutating operation from the
\* comparison on: no temporary directory, no patch file, no backup branch,
\* no reset, main untouched.  Before the comparison it may have checked out
\* main, added the remote, updated llvm-main by the fetch and pushed it.
C5_NoMutationAfterCompare ==
    TargetIsForkPoint =>
        /\ ops \subseteq SetupOps
        /\ temp_dir = "none"
        /\ patch_files = <<>>
        /\ backup = NoCommit
        /\ main = orig_main
        /\ pc = "done" => (exit_code = 0 /\ "already at target" \in printed)

C5_Witness ==
    /\ TargetIsForkPoint
    /\ pc = "done"
    /\ step.kind = "none"
    /\ "fetch_update" \in ops
    /\ "already at target" \in printed

\* C6: with a dirty working tree (staged, unstaged or untracked) no patch
\* file is written, no backup branch is made and main is not reset; when the
\* target differs from the fork point the run exits with code 1.
C6_DirtyTreeUntouched ==
    dirty # {} =>
        /\ patch_files = <<>>
        /\ "patch_written" \notin ops
        /\ backup = NoCommit
        /\ "backup" \notin ops
        /\ "reset" \notin ops
        /\ main = orig_main
        /\ (pc = "done" /\ new_base_commit # NoCommit
                /\ new_base_commit # old_base_commit) => exit_code = 1

C6_Witness ==
    /\ dirty = {"untracked"}
    /\ "working directory dirty" \in printed
    /\ local_commits # <<>>
    /\ exit_code = 1

\* what the reporter is to say of a fork point f against a reference r
Classify(f, r) ==
    IF f = r THEN [rel |-> "same", n |-> 0]
    ELSE IF IsAncestor(f, r)
    THEN [rel |-> "plus", n |-> Cardinality(Anc(r) \ Anc(f))]
    ELSE IF IsAncestor(r, f)
    THEN [rel |-> "minus", n |-> Cardinality(Anc(f) \ Anc(r))]
    ELSE [rel |-> "different", n |-> 0]

\* C10: the report classifies the fork point against the CIRCT commit and
\* against the tip of llvm-main alike as equal, before (with the number of
\* commits from the fork point to the reference), after (with the number of
\* commits from the reference to the fork point) or on a different branch.
C10_ReportClassifies ==
    report # NoReport =>
        /\ report.circt = Classify(new_base_commit, circt_commit)
        /\ report.latest = Classify(new_base_commit, llvm_main)

\* ---------------------------------------------------------------- calculate_target_commit alone
\* the commits calculate_target_commit may be handed as old_base
CalcBases ==
    {Trunk(k) : k \in 1..TrunkLen} \cup {SideCommit}
        \cup {[base |-> b, locals |-> <<1>>] : b \in 1..TrunkLen}

InitCalc ==
    /\ pc = "target"
    /\ exit_code = -1
    /\ circt_commit = NoCommit
    /\ old_base_commit \in CalcBases
    /\ local_commits = <<>>
    /\ new_base_commit = NoCommit
    /\ patch_files = <<>>
    /\ temp_dir = "none"
    /\ patch_idx = 0
    /\ attempts = 0
    /\ printed = {}
    /\ ops = {}
    /\ report = NoReport
    /\ backup = NoCommit
    /\ current_branch = "main"
    /\ has_remote = TRUE
    /\ llvm_main \in {Trunk(k) : k \in 1..TrunkLen}
    /\ upstream_main = llvm_main
    /\ main = old_base_commit
    /\ orig_main = main
    /\ dirty = {}
    /\ step \in Steps \ {[kind |-> "none", n |-> 0]}

NextCalc == DetermineTarget

SpecCalc == InitCalc /\ [][NextCalc]_vars

InHistory == IsAncestor(old_base_commit, llvm_main)

MinOf(a, b) == IF a < b THEN a ELSE b

MaxOf(a, b) == IF a > b THEN a ELSE b

\* C7: on the linear history c[1..L] of llvm-main with old_base = c[i], a
\* positive step N gives c[min(i+N, L)] and a negative step -N gives
\* c[max(i-N, 1)], and the clamping never ends the run.
C7_StepArithmetic ==
    (pc # "target" /\ step.kind = "int" /\ step.n # 0 /\ InHistory) =>
        /\ pc = "compare"
        /\ exit_code = -1
        /\ new_base_commit =
            Trunk(IF step.n > 0
                  THEN MinOf(old_base_commit.base + step.n, llvm_main.base)
                  ELSE MaxOf(old_base_commit.base + step.n, 1))

C7_Witness ==
    /\ pc = "compare"
    /\ InHistory
    /\ step.kind = "int"
    /\ step.n < 0
    /\ old_base_commit.base > 1
    /\ old_base_commit.base + step.n < 1
    /\ new_base_commit = Trunk(1)

\* C8 as stated: whatever the step, an old_base that is not in llvm-main's
\* history ends the call with exit code 1 and no target.
C8_AbsentAlwaysFatal ==
    (pc # "target" /\ ~InHistory) =>
        /\ pc = "done"
        /\ exit_code = 1
        /\ new_base_commit = NoCommit

\* C8 amended: an old_base that is not in llvm-main's history ends the call
\* with exit code 1 and no target for every non-zero integer step; with
\* "MAX" the call returns the tip of llvm-main and with 0 it returns
\* old_base, neither looking old_base up.
C8_AbsentFatalForNonzeroStep ==
    (pc # "target" /\ ~InHistory) =>
        IF step.kind = "max"
        THEN pc = "compare" /\ exit_code = -1 /\ new_base_commit = llvm_main
        ELSE IF step.n = 0
        THEN pc = "compare" /\ exit_code = -1 /\ new_base_commit = old_base_commit
        ELSE /\ pc = "done"
             /\ exit_code = 1
             /\ new_base_commit = NoCommit
             /\ "base not in llvm-main" \in printed

C8_Witness ==
    /\ pc = "done"
    /\ ~InHistory
    /\ step.kind = "int"
    /\ step.n = MaxStep
    /\ exit_code = 1

\* ---------------------------------------------------------------- save_patches and rebase_to_new_base back to back
InitRoundTrip ==
    /\ pc = "roundtrip"
    /\ Locals0
    /\ current_branch = "main"
    /\ has_remote = TRUE
    /\ llvm_main \in {Trunk(k) : k \in 1..TrunkLen}
    /\ upstream_main = llvm_main
    /\ main \in {[base |-> b, locals |-> q] : b \in 1..TrunkLen, q \in LocalSeqs}
    /\ orig_main = main
    /\ dirty = {}
    /\ step = [kind |-> "none", n |-> 0]

\* the local commits are taken from find_fork_point and the new base is
\* the base they already sit on
RoundTripStart ==
    /\ pc = "roundtrip"
    /\ LET r == find_fork_point(main, llvm_main)
       IN  /\ old_base_commit' = r.fork
           /\ local_commits' = r.commits
           /\ new_base_commit' = r.fork
    /\ Goto("save")
    /\ UNCHANGED <<current_branch, has_remote, llvm_main, upstream_main, main, backup,
                   dirty, step, circt_commit, patch_files, temp_dir, patch_idx,
                   attempts, ops, report, orig_main>>

NextRoundTrip ==
    \/ RoundTripStart
    \/ SavePatches
    \/ VerifyCommits
    \/ CreateBackup
    \/ ResetHard
    \/ ApplyPatch
    \/ FinishRebase
    \/ RestoreFromBackup

SpecRoundTrip == InitRoundTrip /\ [][NextRoundTrip]_vars

\* the diffs of the commits of tip that are not reachable from b, oldest first
DiffsOn(b, tip) ==
    LET cs == RevList(b, {tip})
    IN  [i \in 1..Len(cs) |-> DiffOf(cs[i])]

====
